---- MODULE Spec2Model ----
(***************************************************************************)
(* Model of QwenTTSEngine (backend/app/core/tts_engine.py): the lazily     *)
(* loaded model slots, the device/dtype profile, the MPS->CPU fallback of  *)
(* the generation methods and the clone prompt cache.  Every caller is a   *)
(* thread of control that executes one engine method at a time; a step of  *)
(* a caller is one read or write of the engine's shared attributes.        *)
(***************************************************************************)
EXTENDS Integers, Sequences, FiniteSets, TLC

VARIABLES
    device,        \* self._device
    dtype,         \* self._dtype
    models,        \* self._models : dict ModelType -> handle | None
    loadErrors,    \* self._model_load_errors
    cache,         \* self._clone_prompt_cache : dict prompt_id -> prompt
    th,            \* per caller: position in the method it executes and its locals
    callers,       \* the callers that issue calls (one, or two concurrent ones)
    env,           \* what _init_device saw: VOICEFORGE_DEVICE, mps and cuda availability
    loadCount,     \* history: Qwen3TTSModel.from_pretrained invocations per ModelType
    evictCount,    \* history: executions of `del self._models[X]` per ModelType
    downCount,     \* history: executions of `self._device = "cpu"`
    puts,          \* history: per prompt_id, the calls that stored a prompt under it
    nCalls         \* history: top-level engine calls issued so far

vars == <<device, dtype, models, loadErrors, cache, th, callers, env,
          loadCount, evictCount, downCount, puts, nCalls>>
shared == <<device, dtype, models, loadErrors, cache>>
hist == <<loadCount, evictCount, downCount, puts>>
fixed == <<callers, env>>

-----------------------------------------------------------------------------
(* Bounds of the model *)

\* top-level engine calls issued in one behaviour
MaxCalls == 2

Threads == {1, 2}

-----------------------------------------------------------------------------
(* class ModelType(Enum) *)

CUSTOM_VOICE == "custom_voice"
VOICE_DESIGN == "voice_design"
BASE == "base"
CUSTOM_VOICE_SMALL == "custom_voice_small"
BASE_SMALL == "base_small"

ModelType == {CUSTOM_VOICE, VOICE_DESIGN, BASE, CUSTOM_VOICE_SMALL, BASE_SMALL}

\* a slot value: None, or the handle from_pretrained returned (the device and
\* dtype it was given, and which invocation for that ModelType produced it)
NoModel == [dev |-> "None", dt |-> "None", id |-> 0]
NoError == "None"
NoPrompt == [audio |-> "None", ref |-> "None", xvec |-> FALSE, id |-> 0]
NoExc == [type |-> "None", sig |-> FALSE, kind |-> "None"]

CPU == "cpu"
MPS == "mps"
CUDA == "cuda:0"
Float32 == "float32"
BFloat16 == "bfloat16"

-----------------------------------------------------------------------------
(* Inputs *)

\* texts are sequences of characters; " " is whitespace
Texts == { <<>>, <<" ", " ">>, <<" ", "a">> }
IsSpace(c) == c = " "

RECURSIVE LStrip(_)
LStrip(s) == IF s # <<>> /\ IsSpace(Head(s)) THEN LStrip(Tail(s)) ELSE s

RECURSIVE RStrip(_)
RStrip(s) ==
    IF s # <<>> /\ IsSpace(s[Len(s)]) THEN RStrip(SubSeq(s, 1, Len(s) - 1)) ELSE s

\* str.strip()
Strip(s) == RStrip(LStrip(s))

\* `not text.strip()`
NotStripped(s) == Strip(s) = <<>>

\* self.presets: name -> (speaker, instruct)
presets ==
    [x \in {"Deep Male", "Soft Whisper"} |->
        IF x = "Deep Male"
        THEN [speaker |-> "Ryan",
              instruct |-> "Speak in a deep, calm, authoritative tone."]
        ELSE [speaker |-> "Vivian",
              instruct |-> "Speak softly and gently, almost whispering."]]

PresetNames == {"Soft Whisper", "Unknown"}
ModelSizes == {"1.7B", "0.6B"}
RefTexts == {"None", "", "hello"}
AudioPaths == {"a.wav", "b.wav"}
PromptIdArgs == {"None", "h_a"}

\* hashlib.md5(reference_audio_path.encode()).hexdigest()[:12]
Md5(path) == IF path = "a.wav" THEN "h_a" ELSE "h_b"

\* a key that is always derived from the audio path, an explicit id ignored
PromptKey_AlwaysDerived(path, pid) == Md5(path)

\* if prompt_id is None: prompt_id = hashlib.md5(reference_audio_path.encode()).hexdigest()[:12]
PromptKey(path, pid) == IF pid = "None" THEN Md5(path) ELSE pid

\* the keys the prompt cache can hold: explicit ids and digests of audio paths
PromptKeys == (PromptIdArgs \ {"None"}) \cup {Md5(p) : p \in AudioPaths}

\* model_size in ["0.6B", "small", "small-model"]
IsSmall(size) == size \in {"0.6B", "small", "small-model"}

NoPreset == [speaker |-> "-", instruct |-> "-"]

NoArg == [text |-> <<>>, name |-> "-", size |-> "-", desc |-> <<>>, ref |-> "None",
          xvec |-> FALSE, path |-> "-", pid |-> "None", mt |-> "-"]

NoStatus ==
    [device |-> "None", dtype |-> "None", models_loaded |-> [m \in {} |-> FALSE],
     model_errors |-> [m \in {} |-> "None"], available_presets |-> {},
     cached_clone_prompts |-> {}]

Idle ==
    [pc |-> "idle", op |-> "-", arg |-> NoArg, mt |-> "-", depth |-> 0,
     preset |-> NoPreset, sent |-> NoPreset, ldev |-> "None", ldt |-> "None", attn |-> "None",
     model |-> NoModel, prompt |-> NoPrompt, err |-> NoExc,
     res |-> "None", exc |-> NoExc, status |-> NoStatus, cid |-> 0, hdev |-> "None",
     nGen |-> 0, nEvict |-> 0, nDown |-> 0, nRetry |-> 0, nLoad |-> 0,
     failDev |-> "None", touched |-> FALSE, steps |-> 0, given |-> "None",
     route |-> "-", tmp |-> "none"]

-----------------------------------------------------------------------------
(* QwenTTSEngine._init_device *)

\* _init_device without the VOICEFORGE_DEVICE check
InitDevice_NoOverride(env_device, mps_available, cuda_available) ==
    IF mps_available THEN [device |-> MPS, dtype |-> Float32]
    ELSE IF cuda_available THEN [device |-> CUDA, dtype |-> BFloat16]
    ELSE [device |-> CPU, dtype |-> Float32]

\* _init_device with the cuda test ahead of the mps test
InitDevice_CudaFirst(env_device, mps_available, cuda_available) ==
    IF env_device = "cpu" THEN [device |-> CPU, dtype |-> Float32]
    ELSE IF cuda_available THEN [device |-> CUDA, dtype |-> BFloat16]
    ELSE IF mps_available THEN [device |-> MPS, dtype |-> Float32]
    ELSE [device |-> CPU, dtype |-> Float32]

InitDevice(env_device, mps_available, cuda_available) ==
    IF env_device = "cpu" THEN [device |-> CPU, dtype |-> Float32]
    ELSE IF mps_available THEN [device |-> MPS, dtype |-> Float32]
    ELSE IF cuda_available THEN [device |-> CUDA, dtype |-> BFloat16]
    ELSE [device |-> CPU, dtype |-> Float32]

\* the environments the process can start in
Environments ==
    [override : {"", "cpu"}, mps : BOOLEAN, cuda : BOOLEAN]

\* one start-up environment per device profile: mps, cuda:0, cpu
DeviceEnvironments ==
    {e \in Environments : e.override = "" /\ ~(e.mps /\ e.cuda)}

InitFor(cs, envs) ==
    /\ env \in envs
    /\ device = InitDevice(env.override, env.mps, env.cuda).device
    /\ dtype = InitDevice(env.override, env.mps, env.cuda).dtype
    /\ models = [m \in ModelType |-> NoModel]
    /\ loadErrors = [m \in ModelType |-> NoError]
    /\ cache = [p \in {} |-> NoPrompt]
    /\ th = [t \in Threads |-> Idle]
    /\ callers = cs
    /\ loadCount = [m \in ModelType |-> 0]
    /\ evictCount = [m \in ModelType |-> 0]
    /\ downCount = 0
    /\ puts = [p \in PromptKeys |-> <<>>]
    /\ nCalls = 0

-----------------------------------------------------------------------------
(* Exceptions and the way they leave a method *)

Exc(type, sig, kind) == [type |-> type, sig |-> sig, kind |-> kind]

\* raise ValueError("Text cannot be empty")
EmptyText == Exc("ValueError", FALSE, "validation")

\* raise ValueError(f"Clone prompt '{prompt_id}' not found in cache")
PromptNotFound == Exc("ValueError", FALSE, "notfound")

\* raise RuntimeError(error_msg) from e, error_msg holding str(e), which may
\* itself hold the signature text
LoadFailed(sig) == Exc("RuntimeError", sig, "load")

\* the method returns `result` or raises `exc` to its caller
Done(r, result, exc) == [r EXCEPT !.pc = "done", !.res = result, !.exc = exc]

\* every method with an except clause around its body
InTry_Every(r) == TRUE

\* generate_preset, generate_voice_design and generate_clone run their model
\* access and backend calls inside try/except Exception; the other methods do not
InTry(r) == r.op \in {"preset", "design", "clone"}

\* an exception raised at the caller's position: caught by the method's
\* except clause, or propagated to the caller of the engine
Throw(r, e) == IF InTry(r) THEN [r EXCEPT !.pc = "handler", !.err = e] ELSE Done(r, "None", e)

\* one step of caller t, counted in the call's `steps`
Step(t, r) == th' = [th EXCEPT ![t] = [r EXCEPT !.steps = th[t].steps + 1]]

\* the fallback without its device test: any signature failure falls back
FallbackApplies_AnyDevice(e, dev) == e.sig

\* the fallback on every device but cpu
FallbackApplies_NotCpu(e, dev) == e.sig /\ dev # CPU

\* the fallback without its message test: any failure on mps falls back
FallbackApplies_AnyError(e, dev) == dev = MPS

\* `"channels > 65536" in error_msg and self.device == "mps"`
FallbackApplies(e, dev) == e.sig /\ dev = MPS

\* the device and dtype the fallback forces ("Force CPU for this session")
FallbackDevice == CPU
\* the fallback keeping the accelerator's half precision
FallbackDtype_Half == BFloat16
FallbackDtype == Float32

\* the lookup without the default: an unknown name yields no preset
PresetFor_NoDefault(name) == IF name \in DOMAIN presets THEN presets[name] ELSE NoPreset

\* preset = self.presets.get(preset_name); if None: self.presets["Deep Male"]
PresetFor(name) ==
    IF name \in DOMAIN presets THEN presets[name] ELSE presets["Deep Male"]

\* generate_clone on the 1.7B Base model whatever size was requested
CloneModelType_Large(size) == BASE

\* the ModelType a method resolves to
PresetModelType(size) == IF IsSmall(size) THEN CUSTOM_VOICE_SMALL ELSE CUSTOM_VOICE
CloneModelType(size) == IF IsSmall(size) THEN BASE_SMALL ELSE BASE

\* a validation that looks at the text alone
TextRejected_TextOnly(op, arg) == op \in {"preset", "design", "clone"} /\ NotStripped(arg.text)

\* the validation at the head of each method
TextRejected(op, arg) ==
    CASE op = "preset" -> NotStripped(arg.text)
      [] op = "design" -> NotStripped(arg.text) \/ NotStripped(arg.desc)
      [] op = "clone"  -> NotStripped(arg.text)
      [] OTHER -> FALSE

\* the method without its membership test
PromptMissing_Unchecked(pid, c) == FALSE

\* `prompt_id not in self._clone_prompt_cache`
PromptMissing(pid, c) == pid \notin DOMAIN c

\* a property that loads on every access
SlotEmpty_Always(slot) == TRUE

\* `self._models[X] is None` of the lazy properties
SlotEmpty(slot) == slot = NoModel

\* `reference_text and not use_x_vector_only` (None and "" are falsy)
FullCloneMode(arg) == arg.ref \notin {"None", ""} /\ ~arg.xvec

\* x_vector_only_mode=(reference_text is None)
PromptXVectorOnly(ref) == ref = "None"

-----------------------------------------------------------------------------
(* A caller invokes a method of the engine *)

Begin(t, op, arg) ==
    /\ t \in callers
    /\ th[t].pc = "idle"
    /\ nCalls < MaxCalls
    /\ nCalls' = nCalls + 1
    /\ Step(t, [Idle EXCEPT !.pc = IF op = "unload" THEN "unl_check" ELSE "entry",
                            !.op = op, !.arg = arg, !.cid = nCalls + 1,
                            !.given = arg.pid,
                            !.mt = IF op = "unload" THEN arg.mt ELSE "-"])
    /\ UNCHANGED <<shared, fixed, hist>>

CallPreset(t) ==
    \E text \in Texts, name \in PresetNames, size \in ModelSizes :
        Begin(t, "preset", [NoArg EXCEPT !.text = text, !.name = name, !.size = size])

CallDesign(t) ==
    \E text \in Texts, desc \in Texts :
        Begin(t, "design", [NoArg EXCEPT !.text = text, !.desc = desc])

CallClone(t) ==
    \E text \in Texts, ref \in {"None", "hello"}, xvec \in BOOLEAN, size \in ModelSizes :
        Begin(t, "clone", [NoArg EXCEPT !.text = text, !.ref = ref, !.xvec = xvec,
                                        !.size = size, !.path = "a.wav"])

CallCreatePrompt(t) ==
    \E path \in AudioPaths, ref \in RefTexts, pid \in PromptIdArgs :
        Begin(t, "create", [NoArg EXCEPT !.path = path, !.ref = ref, !.pid = pid])

CallCached(t) ==
    \E text \in Texts, pid \in PromptIdArgs \ {"None"} :
        Begin(t, "cached", [NoArg EXCEPT !.text = text, !.pid = pid])

CallUnload(t) ==
    \E m \in ModelType : Begin(t, "unload", [NoArg EXCEPT !.mt = m])

-----------------------------------------------------------------------------
(* The head of each method: validation and resolution of the request.  A     *)
(* retried call (depth 1) re-enters here with the same arguments.            *)

Entry(t) ==
    LET r == th[t] IN
    /\ r.pc = "entry"
    /\ r.op \in {"preset", "design", "clone", "create", "cached"}
    /\ Step(t,
         IF TextRejected(r.op, r.arg)
         THEN \* raise ValueError("Text cannot be empty")
              Done(r, "None", EmptyText)
         ELSE CASE r.op = "preset" ->
                     [r EXCEPT !.pc = "check", !.preset = PresetFor(r.arg.name),
                               !.mt = PresetModelType(r.arg.size)]
                [] r.op = "design" -> [r EXCEPT !.pc = "check", !.mt = VOICE_DESIGN]
                [] r.op = "clone" ->
                     [r EXCEPT !.pc = "check", !.mt = CloneModelType(r.arg.size)]
                [] r.op = "create" ->
                     [r EXCEPT !.pc = "check", !.mt = BASE,
                               !.arg.pid = PromptKey(r.arg.path, r.arg.pid)]
                [] r.op = "cached" ->
                     IF PromptMissing(r.arg.pid, cache)
                     THEN \* raise ValueError("Clone prompt ... not found in cache")
                          Done(r, "None", PromptNotFound)
                     ELSE IF r.arg.pid \notin DOMAIN cache
                     THEN \* prompt = self._clone_prompt_cache[prompt_id]
                          Done(r, "None", Exc("KeyError", FALSE, "other"))
                     ELSE [r EXCEPT !.pc = "check", !.mt = BASE,
                                    !.prompt = cache[r.arg.pid]])
    /\ UNCHANGED <<shared, fixed, hist, nCalls>>

-----------------------------------------------------------------------------
(* The lazy model properties (custom_voice_model, base_model, ...) and       *)
(* _load_model                                                               *)

\* a lazy property that does not load again while a load error is recorded
MustLoad_UnlessFailed(ms, errs, mt) == SlotEmpty(ms[mt]) /\ errs[mt] = NoError

\* `if self._models[X] is None:` the test of the lazy property on the
\* engine's attributes; self._model_load_errors is not read
MustLoad(ms, errs, mt) == SlotEmpty(ms[mt])

\* if self._models[X] is None:
Check(t) ==
    LET r == th[t] IN
    /\ r.pc = "check"
    /\ Step(t,
         IF r.mt \notin DOMAIN models
         THEN Throw(r, Exc("KeyError", FALSE, "other"))
         ELSE IF MustLoad(models, loadErrors, r.mt)
              THEN [r EXCEPT !.pc = "load_begin", !.touched = TRUE]
              ELSE [r EXCEPT !.pc = "ret", !.touched = TRUE])
    /\ UNCHANGED <<shared, fixed, hist, nCalls>>

\* attn_implementation chosen by _load_model for the device
AttnFor(dev) == IF dev = CUDA THEN "flash_attention_2" ELSE IF dev = MPS THEN "sdpa" ELSE "None"

\* _load_model builds model_kwargs from self.device and self.dtype
LoadBegin(t) ==
    LET r == th[t] IN
    /\ r.pc = "load_begin"
    /\ Step(t, [r EXCEPT !.pc = "load_end", !.ldev = device, !.ldt = dtype,
                         !.attn = AttnFor(device)])
    /\ UNCHANGED <<shared, fixed, hist, nCalls>>

\* _load_model that leaves the recorded error alone after a successful load
RecordLoad_KeepError(errs, mt, outcome) ==
    IF outcome = "ok" THEN errs ELSE [errs EXCEPT ![mt] = "Failed to load"]

\* self._model_load_errors[model_type] = None after a successful load,
\* = error_msg after a failed one
RecordLoad(errs, mt, outcome) ==
    [errs EXCEPT ![mt] = IF outcome = "ok" THEN NoError ELSE "Failed to load"]

\* Qwen3TTSModel.from_pretrained returns a model or raises; _load_model records
\* the outcome in self._model_load_errors
LoadEnd(t) ==
    LET r == th[t] IN
    /\ r.pc = "load_end"
    /\ loadCount' = [loadCount EXCEPT ![r.mt] = @ + 1]
    /\ \E outcome \in {"ok", "fail", "fail_sig"} :
         IF outcome = "ok"
         THEN /\ loadErrors' = RecordLoad(loadErrors, r.mt, outcome)
              /\ Step(t, [r EXCEPT !.pc = "store", !.nLoad = @ + 1,
                                   !.model = [dev |-> r.ldev, dt |-> r.ldt,
                                              id |-> loadCount[r.mt] + 1]])
         ELSE /\ loadErrors' = RecordLoad(loadErrors, r.mt, outcome)
              /\ Step(t, Throw([r EXCEPT !.nLoad = @ + 1],
                               LoadFailed(outcome = "fail_sig")))
    /\ UNCHANGED <<device, dtype, models, cache, fixed, evictCount, downCount, puts, nCalls>>

\* self._models[X] = self._load_model(X)
Store(t) ==
    LET r == th[t] IN
    /\ r.pc = "store"
    /\ models' = [m \in DOMAIN models \cup {r.mt} |->
                     IF m = r.mt THEN r.model ELSE models[m]]
    /\ Step(t, [r EXCEPT !.pc = "ret", !.model = NoModel])
    /\ UNCHANGED <<device, dtype, loadErrors, cache, fixed, hist, nCalls>>

\* where a method continues with the model the property returned
AfterAccess(r) ==
    CASE r.op = "create" -> "mkprompt"
      [] r.op = "clone" -> IF FullCloneMode(r.arg) THEN "gen" ELSE "mkprompt"
      [] OTHER -> "gen"

\* return self._models[X]
Ret(t) ==
    LET r == th[t] IN
    /\ r.pc = "ret"
    /\ Step(t,
         IF r.mt \notin DOMAIN models
         THEN Throw(r, Exc("KeyError", FALSE, "other"))
         ELSE [r EXCEPT !.pc = AfterAccess(r), !.model = models[r.mt]])
    /\ UNCHANGED <<shared, fixed, hist, nCalls>>

-----------------------------------------------------------------------------
(* Calls of the loaded model (the backend) *)

BackendExc(outcome) ==
    Exc("Exception", outcome = "sig", IF outcome = "sig" THEN "exhaust" ELSE "other")

\* every prompt that was built is stored in the cache
AfterPrompt_Stored(op) == "cache_store"

\* what follows model.create_voice_clone_prompt: generate_clone passes the
\* prompt to generate_voice_clone, create_reusable_clone_prompt stores it
AfterPrompt(op) == IF op = "clone" THEN "gen" ELSE "cache_store"

\* model.create_voice_clone_prompt(...): generate_clone's x-vector branch and
\* create_reusable_clone_prompt
MkPrompt(t) ==
    LET r == th[t] IN
    /\ r.pc = "mkprompt"
    /\ \E outcome \in {"ok", "sig", "other"} :
         Step(t,
           IF r.model = NoModel
           THEN Throw(r, Exc("AttributeError", FALSE, "other"))
           ELSE IF outcome # "ok"
           THEN Throw([r EXCEPT !.failDev = IF @ = "None" /\ outcome = "sig"
                                             THEN device ELSE @],
                      BackendExc(outcome))
           ELSE IF r.op = "clone"
           THEN [r EXCEPT !.pc = AfterPrompt(r.op),
                          !.prompt = [audio |-> r.arg.path, ref |-> "None",
                                      xvec |-> TRUE, id |-> r.cid]]
           ELSE [r EXCEPT !.pc = AfterPrompt(r.op),
                          !.prompt = [audio |-> r.arg.path, ref |-> r.arg.ref,
                                      xvec |-> PromptXVectorOnly(r.arg.ref),
                                      id |-> r.cid]])
    /\ UNCHANGED <<shared, fixed, hist, nCalls>>

\* a cache that holds the latest prompt only: `self._clone_prompt_cache = {prompt_id: prompt}`
CachePut_Only(c, pid, p) == [k \in {pid} |-> p]

\* a dict assignment that keeps the entry already stored under the key
CachePut_KeepFirst(c, pid, p) ==
    [k \in DOMAIN c \cup {pid} |-> IF k \in DOMAIN c THEN c[k] ELSE p]

\* self._clone_prompt_cache[prompt_id] = prompt
CachePut(c, pid, p) ==
    [k \in DOMAIN c \cup {pid} |-> IF k = pid THEN p ELSE c[k]]

\* self._clone_prompt_cache[prompt_id] = prompt; return prompt_id
CacheStore(t) ==
    LET r == th[t] IN
    /\ r.pc = "cache_store"
    /\ cache' = CachePut(cache, r.arg.pid, r.prompt)
    /\ puts' = [puts EXCEPT ![r.arg.pid] = Append(@, r.cid)]
    /\ Step(t, Done(r, r.arg.pid, NoExc))
    /\ UNCHANGED <<device, dtype, models, loadErrors, fixed,
                   loadCount, evictCount, downCount, nCalls>>

\* model.generate_custom_voice / generate_voice_design / generate_voice_clone
Gen(t) ==
    LET r == th[t] IN
    /\ r.pc = "gen"
    /\ \E outcome \in {"ok", "sig", "other"} :
         Step(t,
           IF r.model = NoModel
           THEN Throw(r, Exc("AttributeError", FALSE, "other"))
           ELSE LET q == [r EXCEPT !.nGen = @ + 1, !.sent = r.preset] IN
                IF outcome = "ok"
                THEN Done(q, "audio", NoExc)
                ELSE Throw([q EXCEPT !.failDev = IF @ = "None" /\ outcome = "sig"
                                                 THEN device ELSE @],
                           BackendExc(outcome)))
    /\ UNCHANGED <<shared, fixed, hist, nCalls>>

-----------------------------------------------------------------------------
(* except Exception as e: of the three generation methods *)

\* a bare `raise`: the caught exception leaves the method as it is
Wrapped_Reraised(e) == e

\* raise RuntimeError(f"... failed: {str(e)}") from e
Wrapped(e) ==
    Exc("RuntimeError", e.sig,
        IF e.kind = "load" THEN "load" ELSE IF e.sig THEN "exhaust" ELSE "other")

\* a fallback that unloads the 1.7B slot whatever size was requested
FallbackModelType_Large(op, arg, mt) ==
    IF op = "preset" THEN CUSTOM_VOICE ELSE IF op = "design" THEN VOICE_DESIGN ELSE BASE

\* the ModelType the fallback passes to unload_model: generate_preset derives
\* it from model_size again, generate_voice_design names VOICE_DESIGN,
\* generate_clone uses the model_type it computed before the try block
FallbackModelType(op, arg, mt) ==
    IF op = "preset" THEN PresetModelType(arg.size)
    ELSE IF op = "design" THEN VOICE_DESIGN
    ELSE mt

Handler(t) ==
    LET r == th[t] IN
    /\ r.pc = "handler"
    /\ Step(t,
         IF FallbackApplies(r.err, device)
         THEN [r EXCEPT !.pc = "unl_check", !.hdev = device,
                        !.mt = FallbackModelType(r.op, r.arg, r.mt)]
         ELSE Done([r EXCEPT !.hdev = IF @ = "None" THEN device ELSE @],
                   "None", Wrapped(r.err)))
    /\ UNCHANGED <<shared, fixed, hist, nCalls>>

-----------------------------------------------------------------------------
(* unload_model, called by the fallback and by the host application *)

AfterUnload(r) ==
    IF r.op = "unload" THEN Done(r, "None", NoExc) ELSE [r EXCEPT !.pc = "fb_dev"]

\* if self._models[model_type] is not None:
UnlCheck(t) ==
    LET r == th[t] IN
    /\ r.pc = "unl_check"
    /\ Step(t,
         IF r.mt \notin DOMAIN models
         THEN Done(r, "None", Exc("KeyError", FALSE, "other"))
         ELSE IF models[r.mt] # NoModel
              THEN [r EXCEPT !.pc = "unl_del"]
              ELSE AfterUnload(r))
    /\ UNCHANGED <<shared, fixed, hist, nCalls>>

\* del self._models[model_type]
UnlDel(t) ==
    LET r == th[t] IN
    /\ r.pc = "unl_del"
    /\ IF r.mt \notin DOMAIN models
       THEN /\ Step(t, Done(r, "None", Exc("KeyError", FALSE, "other")))
            /\ UNCHANGED <<models, evictCount>>
       ELSE /\ models' = [m \in DOMAIN models \ {r.mt} |-> models[m]]
            /\ evictCount' = [evictCount EXCEPT ![r.mt] = @ + 1]
            /\ Step(t, [r EXCEPT !.pc = "unl_set", !.nEvict = @ + 1])
    /\ UNCHANGED <<device, dtype, loadErrors, cache, fixed, loadCount, downCount, puts, nCalls>>

\* an unload that clears every slot
SetNone_All(ms, mt) == [m \in DOMAIN ms \cup {mt} |-> NoModel]

\* the dict after `self._models[model_type] = None`
SetNone(ms, mt) == [m \in DOMAIN ms \cup {mt} |-> IF m = mt THEN NoModel ELSE ms[m]]

\* self._models[model_type] = None
UnlSet(t) ==
    LET r == th[t] IN
    /\ r.pc = "unl_set"
    /\ models' = SetNone(models, r.mt)
    /\ Step(t, AfterUnload(r))
    /\ UNCHANGED <<device, dtype, loadErrors, cache, fixed, hist, nCalls>>

-----------------------------------------------------------------------------
(* The fallback: force CPU for this session and retry recursively *)

\* self._device = "cpu"
FbDev(t) ==
    LET r == th[t] IN
    /\ r.pc = "fb_dev"
    /\ device' = FallbackDevice
    /\ downCount' = downCount + 1
    /\ Step(t, [r EXCEPT !.pc = "fb_dtype", !.nDown = @ + 1])
    /\ UNCHANGED <<dtype, models, loadErrors, cache, fixed, loadCount, evictCount, puts, nCalls>>

\* self._dtype = torch.float32; return self.generate_...(same arguments)
FbDtype(t) ==
    LET r == th[t] IN
    /\ r.pc = "fb_dtype"
    /\ dtype' = FallbackDtype
    /\ Step(t, [r EXCEPT !.pc = "entry", !.depth = @ + 1, !.nRetry = @ + 1,
                         !.err = NoExc, !.model = NoModel, !.prompt = NoPrompt])
    /\ UNCHANGED <<device, models, loadErrors, cache, fixed, hist, nCalls>>

-----------------------------------------------------------------------------
(* get_status *)

\* a status that reports "no load error recorded" as "loaded"
StatusOf_FromErrors(dev, dt, ms, errs, c) ==
    [device |-> dev, dtype |-> dt,
     models_loaded |-> [m \in ModelType |-> errs[m] = NoError],
     model_errors |-> [m \in {k \in ModelType : errs[k] # NoError} |-> errs[m]],
     available_presets |-> DOMAIN presets,
     cached_clone_prompts |-> DOMAIN c]

StatusOf(dev, dt, ms, errs, c) ==
    [device |-> dev, dtype |-> dt,
     models_loaded |-> [m \in ModelType |-> ms[m] # NoModel],
     model_errors |-> [m \in {k \in ModelType : errs[k] # NoError} |-> errs[m]],
     available_presets |-> DOMAIN presets,
     cached_clone_prompts |-> DOMAIN c]

GetStatus(t) ==
    /\ t \in callers
    /\ th[t].pc = "idle"
    /\ nCalls < MaxCalls
    /\ nCalls' = nCalls + 1
    /\ Step(t,
         LET r == [Idle EXCEPT !.op = "status", !.cid = nCalls + 1] IN
         IF DOMAIN models # ModelType
         THEN Done(r, "None", Exc("KeyError", FALSE, "other"))
         ELSE Done([r EXCEPT !.status = StatusOf(device, dtype, models, loadErrors, cache)],
                   "status", NoExc))
    /\ UNCHANGED <<shared, fixed, hist>>

-----------------------------------------------------------------------------
(* The endpoints of api/routes.py that call the engine.  An endpoint runs    *)
(* its own validation and the engine call inside one try block; its except   *)
(* clauses turn what the block raised into the response.                     *)

\* raise HTTPException(status_code=400, detail="Text cannot be empty")
BadRequest == Exc("HTTPException", FALSE, "400")

\* detail="An unexpected error occurred"
GenericDetail == "An unexpected error occurred"

\* detail=str(e): the text of the exception that was caught
ExcText == "str(e)"

Resp(status, detail) == [status |-> status, detail |-> detail]

\* the response of the endpoint that calls the engine method `op` when its
\* try block raised e (NoExc: the block returned)
RouteResponse(op, e) ==
    IF e = NoExc THEN Resp("200", "-")
    ELSE CASE op \in {"preset", "design"} ->
                 IF e.type = "ValueError" THEN Resp("400", ExcText)
                 ELSE IF e.type = "RuntimeError" THEN Resp("500", ExcText)
                 ELSE Resp("500", GenericDetail)
           [] op = "clone" ->
                 IF e.type = "ValueError" THEN Resp("400", ExcText)
                 ELSE IF e.type = "RuntimeError" THEN Resp("500", ExcText)
                 ELSE IF e.type = "HTTPException" THEN Resp(e.kind, "detail")
                 ELSE Resp("500", GenericDetail)
           [] op = "create" -> Resp("500", ExcText)
           [] op = "cached" ->
                 IF e.type = "ValueError" THEN Resp("404", ExcText)
                 ELSE Resp("500", ExcText)
           [] OTHER -> Resp("500", ExcText)

\* `if not text.strip(): raise HTTPException(400, ...)`: the first statement
\* of the try block of the four generation endpoints; the engine is not called
RouteRejects(t) ==
    /\ t \in callers
    /\ th[t].pc = "idle"
    /\ nCalls < MaxCalls
    /\ nCalls' = nCalls + 1
    /\ \E route \in {"preset", "design", "clone", "cached"}, text \in Texts :
          /\ NotStripped(text)
          /\ th' = [th EXCEPT ![t] =
                      [Idle EXCEPT !.pc = "rejected", !.route = route, !.arg.text = text,
                                   !.cid = nCalls + 1, !.exc = BadRequest]]
    /\ UNCHANGED <<shared, fixed, hist>>

-----------------------------------------------------------------------------
(* POST /tts/clone: the upload is written to a temporary file, the engine    *)
(* is called with its path, the audio is saved, and a finally clause removes *)
(* the temporary file.  th[t].tmp is the state of that file: "none" (not     *)
(* created), "written", "removed", or "left" (os.remove raised).             *)

\* the reference_text form field: absent, whitespace only, or a transcript
FormTranscripts == {"None", " ", "hello"}

\* `reference_text.strip() if reference_text else None`
RouteTranscript(f) ==
    IF f \in {"None", ""} THEN "None" ELSE IF f = " " THEN "" ELSE f

\* what the try block raises that is no ValueError, RuntimeError or HTTPException
Unexpected == Exc("OSError", FALSE, "other")

\* the removal as the last statement of the try block instead of a finally clause
CleanupOn_Success(e) == e = NoExc

\* `finally:` runs whatever the try block and its except clauses did
CleanupOn(e) == TRUE

\* `if temp_filepath and os.path.exists(temp_filepath)`
NeedsCleanup(tmp) == tmp = "written"

\* the try block up to the engine call: validation of text and upload, then
\* the write of the temporary file
CloneRequest(t) ==
    /\ t \in callers
    /\ th[t].pc = "idle"
    /\ nCalls < MaxCalls
    /\ nCalls' = nCalls + 1
    /\ \E text \in Texts, upload \in {"ok", "bad"}, f \in FormTranscripts,
          size \in ModelSizes, written \in {"ok", "partial", "nofile"} :
          LET r == [Idle EXCEPT !.route = "clone", !.cid = nCalls + 1,
                                !.arg = [NoArg EXCEPT !.text = text,
                                                      !.ref = RouteTranscript(f),
                                                      !.size = size, !.path = "a.wav"]]
          IN  Step(t,
                IF NotStripped(text) \/ upload = "bad"
                THEN \* raise HTTPException(status_code=400, ...)
                     [r EXCEPT !.pc = "finally", !.exc = BadRequest]
                ELSE IF written = "nofile"
                THEN \* open(temp_filepath, "wb") raised
                     [r EXCEPT !.pc = "finally", !.exc = Unexpected]
                ELSE IF written = "partial"
                THEN \* f.write(file_content) raised
                     [r EXCEPT !.pc = "finally", !.exc = Unexpected, !.tmp = "written"]
                ELSE \* tts_engine.generate_clone(text, temp_filepath, ...)
                     [r EXCEPT !.pc = "entry", !.op = "clone", !.tmp = "written"])
    /\ UNCHANGED <<shared, fixed, hist>>

\* the engine call has returned or raised: the audio is saved to the static
\* directory, or the except clauses take the exception
CloneAfterEngine(t) ==
    LET r == th[t] IN
    /\ r.pc = "done" /\ r.route = "clone"
    /\ \E saved \in BOOLEAN :
          Step(t, [r EXCEPT !.pc = "finally",
                            !.exc = IF r.exc = NoExc /\ ~saved THEN Unexpected ELSE @])
    /\ UNCHANGED <<shared, fixed, hist, nCalls>>

\* finally: os.remove(temp_filepath), a failure of which is logged only
CloneFinally(t) ==
    LET r == th[t] IN
    /\ r.pc = "finally"
    /\ \E removed \in BOOLEAN :
          Step(t, [r EXCEPT !.pc = "responded",
                            !.tmp = IF CleanupOn(r.exc) /\ NeedsCleanup(r.tmp)
                                    THEN IF removed THEN "removed" ELSE "left"
                                    ELSE @])
    /\ UNCHANGED <<shared, fixed, hist, nCalls>>

-----------------------------------------------------------------------------
(* The method has returned or raised, or the endpoint has rejected the       *)
(* request or sent its response: the caller is free for its next call        *)

Return(t) ==
    /\ th[t].pc \in {"done", "rejected", "responded"}
    /\ ~(th[t].pc = "done" /\ th[t].route = "clone")
    /\ th' = [th EXCEPT ![t] = Idle]
    /\ UNCHANGED <<shared, fixed, hist, nCalls>>

-----------------------------------------------------------------------------

Next ==
    \E t \in Threads :
        \/ CallPreset(t) \/ CallDesign(t) \/ CallClone(t) \/ CallCreatePrompt(t)
        \/ CallCached(t) \/ CallUnload(t) \/ GetStatus(t) \/ RouteRejects(t)
        \/ Entry(t) \/ Check(t) \/ LoadBegin(t) \/ LoadEnd(t) \/ Store(t) \/ Ret(t)
        \/ MkPrompt(t) \/ CacheStore(t) \/ Gen(t) \/ Handler(t)
        \/ UnlCheck(t) \/ UnlDel(t) \/ UnlSet(t) \/ FbDev(t) \/ FbDtype(t)
        \/ Return(t)

\* The deployed service calls the engine from asynchronous request handlers
\* without awaiting inside a call, so one call runs to completion before the
\* next starts: one caller.
Init == InitFor({1}, Environments)
Spec == Init /\ [][Next]_vars

\* Two callers use the engine at the same time (the engine used from worker
\* threads): generate_preset, unload_model and get_status interleave at the
\* granularity of the reads and writes of the engine's attributes.
ConcNext ==
    \E t \in Threads :
        \/ CallPreset(t) \/ CallUnload(t) \/ GetStatus(t)
        \/ Entry(t) \/ Check(t) \/ LoadBegin(t) \/ LoadEnd(t) \/ Store(t) \/ Ret(t)
        \/ Gen(t) \/ Handler(t)
        \/ UnlCheck(t) \/ UnlDel(t) \/ UnlSet(t) \/ FbDev(t) \/ FbDtype(t)
        \/ Return(t)

ConcInit == InitFor({1, 2}, DeviceEnvironments)
ConcSpec == ConcInit /\ [][ConcNext]_vars

\* The clone endpoint: requests to POST /tts/clone, one at a time, each
\* running the endpoint's own steps around the engine's generate_clone.
RouteNext ==
    \E t \in Threads :
        \/ CloneRequest(t)
        \/ Entry(t) \/ Check(t) \/ LoadBegin(t) \/ LoadEnd(t) \/ Store(t) \/ Ret(t)
        \/ MkPrompt(t) \/ Gen(t) \/ Handler(t)
        \/ UnlCheck(t) \/ UnlDel(t) \/ UnlSet(t) \/ FbDev(t) \/ FbDtype(t)
        \/ CloneAfterEngine(t) \/ CloneFinally(t)
        \/ Return(t)

RouteInit == InitFor({1}, Environments)
RouteSpec == RouteInit /\ [][RouteNext]_vars

\* the steps a caller takes inside a method
Running(t) ==
    \/ Entry(t) \/ Check(t) \/ LoadBegin(t) \/ LoadEnd(t) \/ Store(t) \/ Ret(t)
    \/ MkPrompt(t) \/ CacheStore(t) \/ Gen(t) \/ Handler(t)
    \/ UnlCheck(t) \/ UnlDel(t) \/ UnlSet(t) \/ FbDev(t) \/ FbDtype(t)

-----------------------------------------------------------------------------
(* Properties *)

GenOps == {"preset", "design", "clone", "cached"}
FallbackOps == {"preset", "design", "clone"}
Slot(m) == IF m \in DOMAIN models THEN models[m] ELSE NoModel

C2_BoundedRetryTerminates ==
    \A t \in Threads :
        /\ th[t].depth <= 1
        /\ th[t].nGen <= 2
        /\ th[t].steps <= 24
        /\ th[t].pc \notin {"idle", "done", "rejected"} => ENABLED Running(t)

\* a voice-design call whose backend failed with the signature on both devices
C2_Witness ==
    \E t \in Threads :
        /\ th[t].op = "design" /\ th[t].pc = "done" /\ th[t].depth = 1
        /\ th[t].nGen = 2 /\ th[t].exc.sig

\* C3: once the device is "cpu" it stays "cpu" with float32 in every later state.
C3_CpuIsPermanent ==
    [][device = CPU => (dtype = Float32 /\ device' = CPU /\ dtype' = Float32)]_vars

\* the device is "cpu" by downgrade and a later call has run on it
C3_Witness ==
    /\ device = CPU /\ downCount = 1
    /\ \E t \in Threads : th[t].pc = "done" /\ th[t].nDown = 0 /\ th[t].op = "create"

\* C4: while a slot stays loaded (no eviction) the backend load routine is not
\* invoked again for it and the slot keeps the same handle, which is the handle
\* an access returns.
C4_LoadOnceCached ==
    [][ /\ \A m \in ModelType :
              (Slot(m) # NoModel /\ evictCount'[m] = evictCount[m])
                  => (loadCount'[m] = loadCount[m] /\ models'[m] = models[m])
        /\ \A t \in Threads :
              (th[t].pc = "ret" /\ th'[t].pc \in {"gen", "mkprompt"})
                  => (th'[t].model = models[th[t].mt] /\ th'[t].model # NoModel)
      ]_vars

\* a second call accessed a variant the first call had loaded: it made no load
\* and got the handle of the one load
C4_Witness ==
    \E t \in Threads :
        /\ th[t].pc = "gen" /\ th[t].nLoad = 0 /\ th[t].depth = 0
        /\ loadCount[th[t].mt] = 1 /\ evictCount[th[t].mt] = 0
        /\ th[t].model = models[th[t].mt] /\ th[t].model.id = 1

\* C5: two callers that access the same variant, with no eviction of it, obtain
\* the same handle: the backend load routine ran once for it.
C5_ConcurrentLoadOnce ==
    \A t1, t2 \in Threads :
        (/\ t1 # t2
         /\ th[t1].pc = "gen" /\ th[t2].pc = "gen"
         /\ th[t1].mt = th[t2].mt
         /\ evictCount[th[t1].mt] = 0
         /\ th[t1].model # NoModel /\ th[t2].model # NoModel)
            => th[t1].model = th[t2].model

\* C6: of two callers whose backend generation failed with the signature on MPS,
\* only one finds the device non-safe and writes the CPU device: the device is
\* downgraded once, not twice.
C6_DowngradeOnce ==
    \A t1, t2 \in Threads :
        (t1 # t2 /\ th[t1].failDev = MPS /\ th[t2].failDev = MPS)
            => ~(th[t1].nDown = 1 /\ th[t2].nDown = 1)

\* C7: in every generation method a text that is empty or whitespace-only is
\* rejected with a validation error before any slot is read, any model loaded
\* or any backend capability invoked.
C7_BlankTextRejectedFirst ==
    \A t \in Threads :
        LET r == th[t] IN
        (r.op \in GenOps /\ NotStripped(r.arg.text) /\ r.pc # "entry")
            => /\ r.pc = "done" /\ r.exc.kind = "validation"
               /\ ~r.touched /\ r.nLoad = 0 /\ r.nGen = 0

\* C8: generate_from_cached_clone with a prompt id that is not a key of the
\* cache raises the not-found ValueError without reading a slot, loading the
\* base model or invoking the backend.
C8_UnknownPromptNotFound ==
    \A t \in Threads :
        LET r == th[t] IN
        (r.op = "cached" /\ r.arg.pid \notin DOMAIN cache /\ r.pc # "entry")
            => /\ r.pc = "done"
               /\ r.exc = Exc("ValueError", FALSE, "notfound")
               /\ ~r.touched /\ r.nLoad = 0 /\ r.nGen = 0

\* an unknown id was rejected while the base slot was and stays unloaded
C8_Witness ==
    \E t \in Threads :
        /\ th[t].op = "cached" /\ th[t].pc = "done" /\ th[t].exc.kind = "notfound"
        /\ ~NotStripped(th[t].arg.text)
        /\ models[BASE] = NoModel /\ loadCount[BASE] = 0

\* C9: get_status changes nothing (slots, load errors, device, dtype, cache,
\* load invocations) and its models_loaded flags are exactly "slot is not None".
C9_StatusReadOnly ==
    [][\A t \in Threads :
          (th[t].pc = "idle" /\ th'[t].op = "status")
              => /\ UNCHANGED <<device, dtype, models, loadErrors, cache>>
                 /\ UNCHANGED <<loadCount, evictCount, downCount>>
                 /\ th'[t].exc = NoExc
                 /\ th'[t].status.models_loaded =
                        [m \in ModelType |-> models[m] # NoModel]
                 /\ th'[t].status.device = device
      ]_vars

\* a status taken after a call that left one variant loaded and the others not
C9_Witness ==
    \E t \in Threads :
        /\ th[t].op = "status" /\ th[t].pc = "done"
        /\ \E m1, m2 \in ModelType :
              /\ th[t].status.models_loaded[m1] /\ models[m1] # NoModel
              /\ ~th[t].status.models_loaded[m2] /\ models[m2] = NoModel

\* C10: generate_preset with a non-blank text and a name that is not in the
\* catalog raises no validation or not-found error and calls the backend with
\* the speaker and instruction of "Deep Male".
C10_UnknownPresetUsesDefault ==
    \A t \in Threads :
        LET r == th[t] IN
        (r.op = "preset" /\ r.arg.name \notin DOMAIN presets /\ ~NotStripped(r.arg.text))
            => /\ r.exc.kind \notin {"validation", "notfound"}
               /\ r.nGen > 0 =>
                     r.sent = [speaker |-> "Ryan",
                               instruct |-> "Speak in a deep, calm, authoritative tone."]

\* an unknown preset name produced audio with the default speaker
C10_Witness ==
    \E t \in Threads :
        /\ th[t].op = "preset" /\ th[t].arg.name = "Unknown"
        /\ th[t].pc = "done" /\ th[t].res = "audio" /\ th[t].sent.speaker = "Ryan"

-----------------------------------------------------------------------------
(* C11 *)

\* the call that most recently stored a prompt under key k
LastPut(k) == puts[k][Len(puts[k])]

\* C11: the prompt cache holds one entry per id, and it is the prompt of the
\* most recent successful create_reusable_clone_prompt for that id: a second
\* create with the same id replaces the first, and a lookup by
\* generate_from_cached_clone returns that prompt.
C11_LastCreateWins ==
    /\ DOMAIN cache \subseteq PromptKeys
    /\ \A k \in PromptKeys :
          IF puts[k] = <<>>
          THEN k \notin DOMAIN cache
          ELSE k \in DOMAIN cache /\ cache[k].id = LastPut(k)
    /\ \A t \in callers :
          LET r == th[t] IN
          (r.op = "cached" /\ r.prompt # NoPrompt)
             => /\ r.arg.pid \in DOMAIN cache
                /\ r.prompt = cache[r.arg.pid]
                /\ r.prompt.id = LastPut(r.arg.pid)
    /\ \A t \in callers :
          LET r == th[t] IN
          (r.op = "create" /\ r.pc = "done" /\ r.exc = NoExc)
             => /\ r.res = r.arg.pid
                /\ cache[r.res].id = r.cid
                /\ cache[r.res].audio = r.arg.path

\* two creates under the explicit id "h_a" succeeded, the second from b.wav
C11_Witness ==
    \E t \in callers :
        /\ th[t].op = "create" /\ th[t].pc = "done" /\ th[t].res = "h_a"
        /\ th[t].arg.path = "b.wav"
        /\ puts["h_a"] = <<1, 2>>
        /\ cache["h_a"].audio = "b.wav" /\ cache["h_a"].id = 2

-----------------------------------------------------------------------------
(* C12 *)

\* C12: each of the four generation methods (preset, voice design, clone and
\* generation from a cached prompt) answers a backend failure carrying the
\* resource-exhaustion signature on the MPS device with the fallback: the
\* slot is evicted, the device profile is downgraded and the same operation
\* is retried once.
C12_AllFourFallBack ==
    \A t \in callers :
        LET r == th[t] IN
        (r.op \in GenOps /\ r.pc = "done" /\ r.failDev = MPS)
           => /\ r.nEvict = 1 /\ r.nDown = 1 /\ r.nRetry = 1
              /\ device = CPU /\ dtype = Float32

-----------------------------------------------------------------------------
(* C13 *)

-----------------------------------------------------------------------------
(* C14 *)

\* C14: a failure of a generation call that does not carry the signature is
\* passed on at once: the except clause of generate_preset,
\* generate_voice_design and generate_clone raises it as RuntimeError, and
\* generate_from_cached_clone lets it through; no slot is evicted, the device
\* profile is unchanged and the call is not retried.
C14_OtherFailurePropagates ==
    [][\A t \in callers :
          LET r == th[t] IN
          /\ (r.pc = "handler" /\ ~r.err.sig /\ th'[t] # r)
                => /\ th'[t].pc = "done"
                   /\ th'[t].exc.type = "RuntimeError" /\ ~th'[t].exc.sig
                   /\ th'[t].nEvict = r.nEvict /\ th'[t].nDown = r.nDown
                   /\ th'[t].nRetry = r.nRetry /\ th'[t].nGen = r.nGen
                   /\ UNCHANGED <<shared, hist>>
          /\ (r.op \in GenOps /\ r.pc = "gen" /\ th'[t] # r
                /\ th'[t].pc \in {"handler", "done"}
                /\ (IF th'[t].pc = "done" THEN th'[t].exc ELSE th'[t].err) # NoExc
                /\ ~(IF th'[t].pc = "done" THEN th'[t].exc ELSE th'[t].err).sig)
                => /\ UNCHANGED <<shared, hist>>
                   /\ th'[t].nEvict = r.nEvict /\ th'[t].nDown = r.nDown
                   /\ th'[t].nRetry = r.nRetry]_vars

\* a first generation attempt on mps failed without the signature: the call
\* ended with RuntimeError, the variant still loaded on mps
C14_Witness ==
    \E t \in callers :
        LET r == th[t] IN
        /\ r.op \in FallbackOps /\ r.pc = "done" /\ r.nGen = 1
        /\ r.exc.type = "RuntimeError" /\ ~r.exc.sig /\ r.exc.kind = "other"
        /\ r.nEvict = 0 /\ r.nDown = 0 /\ r.nRetry = 0
        /\ device = MPS /\ Slot(r.mt) # NoModel /\ Slot(r.mt).dev = MPS

-----------------------------------------------------------------------------
(* C15 *)

\* the error with which a generation call ends after a terminal failure with
\* the signature
TerminalExhaustion == Wrapped(BackendExc("sig"))

\* the failures the engine's callers are told apart by
ErrorKinds == {"validation", "notfound", "load", "exhaust"}

-----------------------------------------------------------------------------
(* C16 *)

\* C16: every loaded slot holds a handle that was loaded on the device that
\* is active now: after the fallback has set the device to cpu no slot of any
\* ModelType still holds a handle loaded on the accelerator.  (Stated for the
\* states before any downgrade and for the downgrades that answer a failed
\* backend generation call.)
C16_SlotsOnActiveDevice ==
    (downCount = 0 \/ \E t \in callers : th[t].failDev = MPS)
       => \A m \in ModelType :
             Slot(m) # NoModel => Slot(m).dev = device /\ Slot(m).dt = dtype

-----------------------------------------------------------------------------
(* C17 *)

\* C17: with VOICEFORGE_DEVICE=cpu at start-up the device profile is
\* cpu/float32 whatever accelerators the host has, and it stays so: a
\* generation call that fails with the signature ends with that failure at
\* its first backend failure, with no eviction, no change of the device profile and no
\* retry.
C17_CpuOverrideIsTerminal ==
    env.override = "cpu"
       => /\ device = CPU /\ dtype = Float32 /\ downCount = 0
          /\ \A t \in callers :
                LET r == th[t] IN
                /\ r.nRetry = 0 /\ r.nDown = 0 /\ r.depth = 0
                /\ r.op \in GenOps => r.nEvict = 0
                /\ r.pc \notin {"unl_check", "unl_del", "unl_set", "fb_dev", "fb_dtype"}
                      \/ r.op = "unload"
                /\ (r.op \in GenOps /\ r.pc = "done" /\ r.failDev # "None")
                      => /\ r.failDev = CPU /\ r.nGen <= 1
                         /\ r.exc # NoExc /\ r.exc.sig
                         /\ Slot(r.mt) # NoModel /\ Slot(r.mt).dev = CPU

\* started with the override on a host with mps, a generation call failed
\* with the signature on cpu and was raised with the variant still loaded
C17_Witness ==
    /\ env.override = "cpu" /\ env.mps
    /\ \E t \in callers :
          LET r == th[t] IN
          /\ r.op \in FallbackOps /\ r.pc = "done" /\ r.failDev = CPU
          /\ r.exc.type = "RuntimeError" /\ r.exc.sig /\ r.nGen = 1
          /\ Slot(r.mt) # NoModel

-----------------------------------------------------------------------------
(* C18 *)

\* C18 (as claimed): without the override the start-up selection prefers
\* cuda:0 with bfloat16, then mps with float32, then cpu: a host with both
\* accelerators starts on cuda:0.
C18_CudaBeforeMps ==
    (env.override = "" /\ downCount = 0)
       => /\ device = IF env.cuda THEN CUDA ELSE IF env.mps THEN MPS ELSE CPU
          /\ dtype = IF env.cuda THEN BFloat16 ELSE Float32

\* C18: without the override the start-up selection prefers mps with float32,
\* then cuda:0 with bfloat16, then cpu with float32: a host with both
\* accelerators starts on mps.  The profile selected at start-up is kept
\* until a downgrade.
C18_MpsBeforeCuda ==
    (env.override = "" /\ downCount = 0)
       => /\ device = IF env.mps THEN MPS ELSE IF env.cuda THEN CUDA ELSE CPU
          /\ dtype = IF ~env.mps /\ env.cuda THEN BFloat16 ELSE Float32

\* a host with both accelerators and no override serves a call from a model
\* loaded on mps
C18_Witness ==
    /\ env = [override |-> "", mps |-> TRUE, cuda |-> TRUE]
    /\ device = MPS /\ dtype = Float32
    /\ \E t \in callers :
          /\ th[t].pc = "done" /\ th[t].res = "audio"
          /\ Slot(th[t].mt) # NoModel /\ Slot(th[t].mt).dev = MPS

-----------------------------------------------------------------------------
(* C19 *)

\* no ModelType has both a loaded slot and a recorded load error
NoErrorWhileLoaded ==
    \A m \in ModelType : Slot(m) # NoModel => loadErrors[m] = NoError

\* C19: a load attempt that succeeds clears the recorded load error of its
\* ModelType and its handle is stored in the slot; one that fails leaves the
\* slot empty, records the message and raises RuntimeError to the caller of
\* _load_model.  With calls issued one at a time no ModelType has both a
\* loaded slot and a recorded load error.
C19_LoadOutcomeRecorded ==
    [][/\ NoErrorWhileLoaded /\ NoErrorWhileLoaded'
       /\ \A t \in callers :
             LET r == th[t] IN
             /\ (r.pc = "load_end" /\ th'[t] # r)
                   => \/ /\ th'[t].pc = "store" /\ th'[t].model # NoModel
                         /\ loadErrors'[r.mt] = NoError
                      \/ /\ th'[t].pc \in {"handler", "done"}
                         /\ (IF th'[t].pc = "done" THEN th'[t].exc ELSE th'[t].err)
                               \in {LoadFailed(TRUE), LoadFailed(FALSE)}
                         /\ loadErrors'[r.mt] = "Failed to load"
                         /\ models'[r.mt] = NoModel
             /\ (r.pc = "store" /\ th'[t] # r)
                   => /\ models'[r.mt] = r.model /\ r.model # NoModel
                      /\ loadErrors'[r.mt] = NoError]_vars

\* one ModelType failed to load and has its error recorded, another loaded
\* at its first attempt
C19_Witness ==
    \E a \in ModelType, b \in ModelType :
        /\ Slot(a) = NoModel /\ loadErrors[a] # NoError /\ loadCount[a] = 1
        /\ Slot(b) # NoModel /\ loadErrors[b] = NoError /\ loadCount[b] = 1

-----------------------------------------------------------------------------
(* C20 *)

\* C20: a failed load is not remembered as a reason not to load: the next
\* access to the ModelType, finding the slot empty with an error recorded,
\* invokes from_pretrained again, and when that load succeeds the handle is
\* stored and the recorded error is cleared.
C20_FailedLoadIsRetried ==
    [][\A t \in callers :
          LET r == th[t] IN
          /\ (r.pc = "check" /\ r.mt \in DOMAIN models /\ models[r.mt] = NoModel
                /\ loadErrors[r.mt] # NoError /\ th'[t] # r)
                => th'[t].pc = "load_begin"
          /\ (r.pc = "load_begin" /\ th'[t] # r) => th'[t].pc = "load_end"
          /\ (r.pc = "load_end" /\ th'[t] # r)
                => /\ loadCount'[r.mt] = loadCount[r.mt] + 1
                   /\ th'[t].pc = "store" => loadErrors'[r.mt] = NoError
          /\ (r.pc = "store" /\ loadCount[r.mt] > 1 /\ th'[t] # r)
                => Slot(r.mt)' # NoModel /\ loadErrors'[r.mt] = NoError]_vars

\* the first call failed to load a ModelType, the next call loaded it and
\* produced audio, and no error is recorded for it
C20_Witness ==
    \E t \in callers :
        LET r == th[t] IN
        /\ r.pc = "done" /\ r.res = "audio" /\ r.cid = 2 /\ r.nLoad = 1
        /\ loadCount[r.mt] = 2 /\ evictCount[r.mt] = 0
        /\ Slot(r.mt) # NoModel /\ Slot(r.mt).id = 2 /\ loadErrors[r.mt] = NoError

-----------------------------------------------------------------------------
(* C21 *)

\* C21: the prompt cache never loses an entry.  No step of any method removes
\* a key of self._clone_prompt_cache, every id under which a create has
\* stored a prompt is a key of the cache, and generate_from_cached_clone
\* called with such an id passes its membership test instead of raising the
\* not-found error.
C21_CacheKeepsEntries ==
    [][/\ DOMAIN cache \subseteq DOMAIN cache'
       /\ \A k \in PromptKeys : puts[k] # <<>> => k \in DOMAIN cache'
       /\ \A t \in callers :
             LET r == th[t] IN
             (r.op = "cached" /\ r.pc = "entry" /\ puts[r.arg.pid] # <<>>
                /\ th'[t] # r)
                => /\ th'[t].pc = "check"
                   /\ th'[t].exc = NoExc
                   /\ th'[t].prompt = cache[r.arg.pid]]_vars

\* a prompt stored by the first call is still cached after the second call
\* went through the fallback: one eviction, one downgrade
C21_Witness ==
    /\ puts["h_a"] = <<1>> /\ "h_a" \in DOMAIN cache /\ cache["h_a"].id = 1
    /\ downCount = 1 /\ device = CPU
    /\ \E m \in ModelType : evictCount[m] = 1
    /\ \E t \in callers : th[t].cid = 2 /\ th[t].pc = "done" /\ th[t].nRetry = 1

-----------------------------------------------------------------------------
(* C22 *)

\* C22: the key under which create_reusable_clone_prompt stores and which it
\* returns depends on its arguments only: the explicit prompt_id as given,
\* or, with no prompt_id, the digest of the audio path; neither the
\* transcript nor the state of the engine enters it, so a second create with
\* the same path and no prompt_id returns the same id and replaces the entry.
C22_KeyFromArgumentsOnly ==
    \A t \in callers :
        LET r == th[t]
            key == IF r.given = "None" THEN Md5(r.arg.path) ELSE r.given
        IN  (r.op = "create" /\ r.pc \notin {"idle", "entry"})
               => /\ r.arg.pid = key
                  /\ (r.pc = "done" /\ r.exc = NoExc)
                        => /\ r.res = key
                           /\ key \in DOMAIN cache
                           /\ cache[key].id = r.cid
                           /\ cache[key].audio = r.arg.path
                           /\ cache[key].ref = r.arg.ref
                           /\ \A k \in DOMAIN cache \ {key} : cache[k].id # r.cid

\* two creates from b.wav with no prompt_id returned the same derived id and
\* the cache holds the prompt of the second under it
C22_Witness ==
    \E t \in callers :
        LET r == th[t] IN
        /\ r.op = "create" /\ r.pc = "done" /\ r.given = "None"
        /\ r.arg.path = "b.wav" /\ r.res = "h_b"
        /\ puts["h_b"] = <<1, 2>> /\ cache["h_b"].id = 2
        /\ DOMAIN cache = {"h_b"}

-----------------------------------------------------------------------------
(* C23 *)

\* C23: a request with empty or whitespace-only text to any of the four
\* generation endpoints is answered with status 400 without a call of the
\* engine: the HTTPException(400) raised by the endpoint's own validation
\* reaches the client as raised, not turned into another status by the
\* endpoint's except clauses.
C23_BlankTextIs400 ==
    \A t \in callers :
        LET r == th[t] IN
        (r.pc = "rejected" /\ r.route \in GenOps)
           => /\ NotStripped(r.arg.text) /\ r.exc = BadRequest
              /\ r.op = "-" /\ ~r.touched /\ r.nGen = 0 /\ r.nLoad = 0 /\ r.steps = 0
              /\ RouteResponse(r.route, r.exc).status = "400"

-----------------------------------------------------------------------------
(* C24 *)

\* the failure is none of validation, not found, model load and resource
\* exhaustion
UnknownKind(e) == e # NoExc /\ e.kind = "other"

\* C24: an engine call that ends with an error of no known kind is answered
\* by its endpoint with status 500 and the fixed message: the text of the
\* internal exception is not part of the response, whichever endpoint made
\* the call.
C24_UnknownErrorNotLeaked ==
    \A t \in callers :
        LET r == th[t] IN
        (r.pc = "done" /\ r.op \in GenOps \cup {"create"} /\ UnknownKind(r.exc))
           => RouteResponse(r.op, r.exc) = Resp("500", GenericDetail)

-----------------------------------------------------------------------------
(* C25 *)

\* the ModelType that serves a call: for preset and clone the small one when
\* the requested size is "0.6B", "small" or "small-model", else the large one
ServingType(op, arg) ==
    LET small == arg.size \in {"0.6B", "small", "small-model"} IN
    CASE op = "preset" -> IF small THEN CUSTOM_VOICE_SMALL ELSE CUSTOM_VOICE
      [] op = "design" -> VOICE_DESIGN
      [] op = "clone" -> IF small THEN BASE_SMALL ELSE BASE
      [] OTHER -> BASE

\* C25: the fallback unloads the slot of the ModelType that served the failed
\* call, the slot that holds the handle the failed backend call ran on, and
\* no other; the retried call has the arguments of the failed one and
\* resolves to that same ModelType.
C25_EvictsServingVariant ==
    [][\A t \in callers :
          LET r == th[t]
              q == th'[t]
          IN  /\ (r.pc = "handler" /\ q.pc = "unl_check")
                    => /\ q.mt = ServingType(r.op, r.arg)
                       /\ r.model # NoModel => Slot(q.mt) = r.model
              /\ (r.op \in FallbackOps /\ r.pc = "unl_del" /\ q # r)
                    => /\ r.mt = ServingType(r.op, r.arg)
                       /\ DOMAIN models' = DOMAIN models \ {r.mt}
                       /\ \A m \in DOMAIN models' : models'[m] = models[m]
                       /\ evictCount' = [evictCount EXCEPT ![r.mt] = @ + 1]
              /\ (r.pc = "fb_dtype" /\ q # r)
                    => /\ q.pc = "entry" /\ q.depth = 1
                       /\ q.op = r.op /\ q.arg = r.arg
              /\ (r.op \in FallbackOps /\ r.depth = 1 /\ r.pc = "entry" /\ q.pc = "check")
                    => /\ q.mt = ServingType(r.op, r.arg)
                       /\ r.nEvict = 1 => evictCount[q.mt] >= 1
                       /\ Slot(q.mt) = NoModel]_vars

\* a preset call with size "0.6B" failed on mps, the fallback unloaded the
\* small CustomVoice slot and the retry was served by the small model on cpu
C25_Witness ==
    \E t \in callers :
        LET r == th[t] IN
        /\ r.op = "preset" /\ r.arg.size = "0.6B" /\ r.pc = "done" /\ r.res = "audio"
        /\ r.nRetry = 1 /\ r.mt = CUSTOM_VOICE_SMALL
        /\ evictCount[CUSTOM_VOICE_SMALL] = 1 /\ evictCount[CUSTOM_VOICE] = 0
        /\ Slot(CUSTOM_VOICE_SMALL).dev = CPU

-----------------------------------------------------------------------------
(* C26 *)

\* C26: with two callers at work, a load that the retry of a failed backend
\* generation call starts, which starts after the downgrade, is a load for cpu/float32, and the backend call
\* of the retry runs on a handle that was loaded on cpu, whatever the other
\* caller does to the same slot between the fallback's unload and its
\* assignment of the device.
C26_RetryServedOnSafeDevice ==
    \A t \in callers :
        LET r == th[t] IN
        /\ (r.nRetry = 1 /\ r.failDev = MPS /\ r.pc \in {"load_end", "store"})
              => r.ldev = CPU /\ r.ldt = Float32
        /\ (r.nRetry = 1 /\ r.failDev = MPS /\ r.pc = "gen" /\ r.model # NoModel)
              => r.model.dev = CPU /\ r.model.dt = Float32

-----------------------------------------------------------------------------
(* C27 *)

\* C27: a failed model load inside a generation call is never answered with
\* the fallback, whatever its message: the caught load error either waits for
\* the except clause or has been raised to the caller, the call has changed
\* no device and retried nothing, and the slot stays empty with the message
\* recorded.
C27_LoadFailureNeverFallsBack ==
    \A t \in callers :
        LET r == th[t] IN
        (r.op \in FallbackOps /\ r.err.kind = "load")
           => /\ r.pc \in {"handler", "done"}
              /\ r.pc = "done" => r.exc.kind = "load"
              /\ r.nDown = 0 /\ r.nRetry = 0 /\ r.nEvict = 0
              /\ Slot(r.mt) = NoModel /\ loadErrors[r.mt] # NoError

-----------------------------------------------------------------------------
(* C28 *)

\* C28: a generation call reads and writes the slot of the ModelType it
\* resolves to and no other: no step of generate_preset,
\* generate_voice_design, generate_clone or generate_from_cached_clone, the
\* steps of a fallback included, changes the handle, the recorded load error
\* or the load and eviction history of another ModelType.
C28_OnlyResolvedSlotTouched ==
    [][\A t \in callers :
          LET r == th[t] IN
          (r.op \in GenOps /\ th'[t] # r)
             => \A m \in ModelType \ {ServingType(r.op, r.arg)} :
                   /\ m \in DOMAIN models /\ m \in DOMAIN models'
                   /\ models'[m] = models[m]
                   /\ loadErrors'[m] = loadErrors[m]
                   /\ loadCount'[m] = loadCount[m]
                   /\ evictCount'[m] = evictCount[m]]_vars

\* a call went through the fallback while another ModelType, loaded on mps
\* by the call before, kept its handle
C28_Witness ==
    \E t \in callers :
        LET r == th[t] IN
        /\ r.op \in FallbackOps /\ r.pc = "done" /\ r.nEvict = 1 /\ r.nRetry = 1
        /\ evictCount[r.mt] = 1
        /\ \E m \in ModelType \ {r.mt} :
              /\ Slot(m) # NoModel /\ Slot(m).dev = MPS /\ Slot(m).id = 1
              /\ loadCount[m] = 1 /\ evictCount[m] = 0

-----------------------------------------------------------------------------
(* C29 *)

\* C29: generate_clone leaves the prompt cache as it is.  Called with a
\* transcript (and without the x-vector flag) it goes from the model to one
\* backend generation call; called without a transcript it builds an
\* x-vector-only prompt, passes it to one backend generation call and does
\* not store it.  No step of the call, successful or failed, changes the
\* cache.
C29_CloneKeepsCache ==
    [][\A t \in callers :
          LET r == th[t]
              q == th'[t]
          IN  (r.op = "clone" /\ q # r)
                 => /\ cache' = cache /\ puts' = puts
                    /\ q.pc # "cache_store"
                    /\ (r.pc = "ret" /\ q.pc \in {"gen", "mkprompt"} /\ ~r.arg.xvec)
                          => (q.pc = "gen" <=> r.arg.ref \notin {"None", ""})
                    /\ (r.pc = "mkprompt" /\ q.pc # "handler")
                          => /\ q.pc = "gen" /\ q.prompt.xvec /\ q.prompt.id = r.cid
                             /\ \A k \in DOMAIN cache' : cache'[k] # q.prompt
                    /\ (r.pc = "gen" /\ q.pc = "done")
                          => q.nGen = r.nGen + 1 /\ q.nGen <= 1 + q.nRetry]_vars

\* a clone call without transcript produced audio from an x-vector-only
\* prompt while the cache kept the one prompt stored by the call before
C29_Witness ==
    \E t \in callers :
        LET r == th[t] IN
        /\ r.op = "clone" /\ r.arg.ref = "None" /\ r.pc = "done" /\ r.res = "audio"
        /\ r.prompt.xvec /\ r.prompt.id = 2 /\ r.nGen = 1
        /\ DOMAIN cache = {"h_a"} /\ cache["h_a"].id = 1 /\ puts["h_a"] = <<1>>

-----------------------------------------------------------------------------
(* C30 *)

\* C30: create_reusable_clone_prompt asks the model for a full-mode prompt
\* exactly when a transcript is supplied and for an x-vector-only prompt
\* exactly when none is, for every reference audio and every prompt_id
\* argument.  A transcript is supplied when it is neither None nor the empty
\* string, which is what generate_clone takes it to mean and what the
\* create-prompt route's strip() leaves of a blank form field.
C30_ModeFollowsTranscript ==
    \A t \in callers :
        LET r == th[t] IN
        (r.op = "create" /\ r.pc = "cache_store")
           => /\ r.prompt.audio = r.arg.path
              /\ r.prompt.xvec <=> (r.arg.ref \in {"None", ""})

-----------------------------------------------------------------------------
(* C31 *)

\* C31: generate_voice_design called with a non-blank text and an empty or
\* whitespace-only voice_description raises ValueError at its head: the call
\* ends there, no slot was read, nothing was loaded, and device, dtype,
\* slots, load errors, cache and their histories are as before.  Called with
\* both non-blank it resolves to ModelType.VOICE_DESIGN, and no later step of
\* the call changes the slot of another ModelType.
C31_DesignNeedsDescription ==
    [][\A t \in callers :
          LET r == th[t]
              q == th'[t]
          IN  (r.op = "design" /\ q # r)
                 => /\ (r.pc = "entry" /\ ~NotStripped(r.arg.text) /\ NotStripped(r.arg.desc))
                          => /\ q.pc = "done" /\ q.res = "None"
                             /\ q.exc.type = "ValueError" /\ q.exc.kind = "validation"
                             /\ ~q.touched /\ q.nLoad = 0 /\ q.nGen = 0
                             /\ q.model = NoModel /\ q.mt = "-"
                             /\ UNCHANGED <<shared, hist>>
                    /\ (r.pc = "entry" /\ ~NotStripped(r.arg.text) /\ ~NotStripped(r.arg.desc))
                          => q.pc = "check" /\ q.mt = VOICE_DESIGN /\ UNCHANGED <<shared, hist>>
                    /\ (r.pc \notin {"entry", "done"})
                          => /\ r.mt = VOICE_DESIGN
                             /\ \A m \in ModelType \ {VOICE_DESIGN} :
                                   /\ m \in DOMAIN models'
                                   /\ models'[m] = models[m]
                                   /\ loadCount'[m] = loadCount[m]]_vars

\* after a first call loaded a model, a design call with a text and a
\* whitespace-only description was refused
C31_Witness ==
    \E t \in callers :
        LET r == th[t] IN
        /\ r.op = "design" /\ r.pc = "done" /\ r.cid = 2
        /\ r.arg.text = <<" ", "a">> /\ r.arg.desc = <<" ", " ">>
        /\ r.exc.type = "ValueError" /\ r.nLoad = 0
        /\ \E m \in ModelType : Slot(m) # NoModel

-----------------------------------------------------------------------------
(* C32 *)

\* C32: unload_model(X), run by one caller at a time, ends with slot X
\* holding no instance.  When slot X holds no instance at its start it
\* changes no state at all, so a second unload of X after a first changes
\* nothing.  No step of it changes device, dtype, the recorded load errors,
\* the prompt cache or the slot of another ModelType.
C32_UnloadIdempotent ==
    [][\A t \in callers :
          LET r == th[t]
              q == th'[t]
          IN  (r.pc \in {"unl_check", "unl_del", "unl_set"} /\ q # r)
                 => /\ device' = device /\ dtype' = dtype
                    /\ loadErrors' = loadErrors /\ cache' = cache
                    /\ \A m \in ModelType \ {r.mt} :
                          m \in DOMAIN models' /\ models'[m] = models[m]
                    /\ (r.pc = "unl_check" /\ Slot(r.mt) = NoModel)
                          => /\ UNCHANGED <<shared, hist>>
                             /\ q.pc \notin {"unl_del", "unl_set"}
                             /\ q.nEvict = r.nEvict /\ q.exc = NoExc
                    /\ (r.pc = "unl_check" /\ Slot(r.mt) # NoModel)
                          => q.pc = "unl_del" /\ UNCHANGED <<shared, hist>>
                    /\ (r.pc = "unl_del") => q.pc = "unl_set"
                    /\ (q.pc \notin {"unl_check", "unl_del", "unl_set"})
                          => /\ DOMAIN models' = ModelType
                             /\ models'[r.mt] = NoModel
                             /\ q.exc = NoExc]_vars

\* unload_model found the slot empty that the fallback of the call before
\* had evicted, and left everything as it was
C32_Witness ==
    \E t \in callers :
        LET r == th[t] IN
        /\ r.op = "unload" /\ r.pc = "done" /\ r.cid = 2 /\ r.nEvict = 0
        /\ evictCount[r.mt] = 1 /\ loadCount[r.mt] >= 1 /\ Slot(r.mt) = NoModel

\* unload_model evicted the instance the call before had loaded
C32_WitnessLoaded ==
    \E t \in callers :
        LET r == th[t] IN
        /\ r.op = "unload" /\ r.pc = "done" /\ r.nEvict = 1
        /\ evictCount[r.mt] = 1 /\ loadCount[r.mt] = 1 /\ Slot(r.mt) = NoModel

-----------------------------------------------------------------------------
(* C33 *)

\* C33: self._models has a key for each of the five ModelTypes whenever a
\* caller reads it, the states between the two statements of a concurrent
\* unload_model included, so no get_status, no lazy property and no
\* unload_model ever fails with KeyError on a missing slot.
C33_SlotReadsNeverFail ==
    \A t \in callers :
        LET r == th[t] IN
        /\ (r.op \in {"status", "preset", "unload"})
              => r.exc.type # "KeyError" /\ r.err.type # "KeyError"
        /\ (r.pc \in {"check", "ret", "unl_check", "unl_del"})
              => r.mt \in DOMAIN models

-----------------------------------------------------------------------------
(* C34 *)

\* C34: in every state, the one between the two assignments of a fallback
\* included, dtype is bfloat16 exactly when device is cuda:0 and float32 when
\* device is mps or cpu.
C34_DevicePrecisionCoupled ==
    /\ device \in {CUDA, MPS, CPU}
    /\ dtype \in {BFloat16, Float32}
    /\ dtype = BFloat16 <=> device = CUDA
    /\ device \in {MPS, CPU} => dtype = Float32

\* a fallback has assigned the device and not yet the dtype
C34_Witness ==
    \E t \in callers :
        LET r == th[t] IN
        /\ r.op \in {"design", "clone"} /\ r.pc = "fb_dtype" /\ r.hdev = MPS
        /\ device = CPU /\ dtype = Float32 /\ downCount = 1

-----------------------------------------------------------------------------
(* C35 *)

\* the calls that stored a prompt, under any id
Putters == UNION {{puts[k][i] : i \in DOMAIN puts[k]} : k \in PromptKeys}

\* C35: a create_reusable_clone_prompt call that fails, on the model load or
\* on the backend's prompt construction, with or without the
\* "channels > 65536" signature, has stored nothing: the cache is what it was
\* when the call began, and the call neither evicted a model, nor changed
\* device or dtype, nor retried.  No step of any create call changes device
\* or dtype, and the cache changes only in the step that completes a
\* successful call.
C35_FailedCreateKeepsCache ==
    [][\A t \in callers :
          LET r == th[t]
              q == th'[t]
          IN  (r.op = "create" /\ q # r)
                 => /\ device' = device /\ dtype' = dtype /\ downCount' = downCount
                    /\ evictCount' = evictCount
                    /\ q.pc \notin {"handler", "unl_check", "fb_dev", "fb_dtype"}
                    /\ (r.pc # "cache_store") => (cache' = cache /\ puts' = puts)
                    /\ (r.pc = "cache_store") => (q.pc = "done" /\ q.exc = NoExc)
                    /\ (q.pc = "done" /\ q.exc # NoExc)
                          => /\ r.cid \notin Putters
                             /\ q.res = "None"
                             /\ q.nRetry = 0 /\ q.nDown = 0 /\ q.nEvict = 0
                             /\ q.depth = 0]_vars

\* on mps the backend's prompt construction failed with the signature in a
\* call that was to overwrite the entry of the call before: the entry is kept
\* and the device is still mps
C35_Witness ==
    \E t \in callers :
        LET r == th[t] IN
        /\ r.op = "create" /\ r.pc = "done" /\ r.cid = 2
        /\ r.exc.sig /\ r.model # NoModel
        /\ device = MPS /\ downCount = 0
        /\ r.arg.pid \in DOMAIN cache /\ cache[r.arg.pid].id = 1
        /\ puts[r.arg.pid] = <<1>>

-----------------------------------------------------------------------------
(* C36 *)

\* the response of a request to POST /tts/clone
CloneResponse(r) == RouteResponse("clone", r.exc)

\* C36 (as claimed): when a request to POST /tts/clone has its response, the
\* temporary file it wrote is removed, whatever the outcome: 200, 400, 500
\* with the engine's message, 500 with the generic message.
C36_TempFileRemoved ==
    \A t \in callers :
        (th[t].route = "clone" /\ th[t].pc = "responded")
           => th[t].tmp \in {"none", "removed"}

\* C36: once a request to POST /tts/clone has written its temporary file,
\* the file stays until the finally clause, which runs on every outcome
\* (200, 400, 500 with the engine's message, 500 with the generic message)
\* and calls os.remove on it: when the response is sent the file is removed,
\* or os.remove has raised, which is logged and changes nothing of the
\* response.
C36_TempFileRemovalAttempted ==
    [][\A t \in callers :
          LET r == th[t]
              q == th'[t]
          IN  (r.route = "clone" /\ q # r)
                 => /\ (r.pc \notin {"finally", "responded"}) => q.tmp = r.tmp
                    /\ (r.op = "clone" /\ r.pc # "responded") => r.tmp = "written"
                    /\ (r.pc = "done") => q.pc = "finally"
                    /\ (r.pc = "finally")
                          => /\ q.pc = "responded" /\ q.exc = r.exc
                             /\ (r.tmp = "written") => q.tmp \in {"removed", "left"}
                             /\ (r.tmp = "none") => q.tmp = "none"
                    /\ (q.pc = "idle")
                          => /\ r.pc = "responded" /\ r.tmp # "written"
                             /\ CloneResponse(r).status \in {"200", "400", "500"}]_vars

\* the engine call of the second request failed with RuntimeError, the
\* response is a 500 with its message, and the temporary file is removed
C36_Witness ==
    \E t \in callers :
        LET r == th[t] IN
        /\ r.route = "clone" /\ r.pc = "responded" /\ r.cid = 2
        /\ r.op = "clone" /\ r.exc.type = "RuntimeError"
        /\ CloneResponse(r) = Resp("500", ExcText)
        /\ r.tmp = "removed"

====
